---- MODULE Spec2Model ----
(***************************************************************************)
(* Model of sleepnumber-stats-collector (src/main.go).                     *)
(*                                                                         *)
(* Three tasks share the process: the main goroutine (start-up, signal     *)
(* wait, flush, return), the poll goroutine (main.go:161-331) and the      *)
(* environment that delivers SIGINT/SIGTERM.  Every vendor call is one     *)
(* step of the task that makes it, so the other tasks interleave between   *)
(* calls; the process exit (return of main, or log.Fatal = os.Exit(1))     *)
(* stops every task wherever it is.                                        *)
(***************************************************************************)
EXTENDS Integers, Sequences, FiniteSets, TLC

(* ------------------------------ bounds --------------------------------- *)
MaxBeds == 2          \* longest device list returned by siq.Beds()
MaxLatency == 1       \* a vendor call takes 0..MaxLatency seconds
MaxPollInterval == 2  \* configured PollInterval is 1..MaxPollInterval seconds

\* the elapsed time of a cycle is tracked up to one second past the interval
MaxElapsed == MaxPollInterval + 1

\* Bed identifiers are opaque, the code only compares them (main.go:303), so
\* a device list of n beds is taken up to renaming as <<1, ..., n>>.
BedIDs == 1..MaxBeds
BedLists == {[k \in 1..n |-> k] : n \in 0..MaxBeds}

\* The family-status list holds any identifiers, repeated or not, matching a
\* listed bed or not.  The join of main.go:302-324 does not depend on the
\* order of the list, which is taken sorted.
SortedSeqs(S, n) ==
  {s \in UNION {[1..m -> S] : m \in 0..n} :
     \A k \in 1..(Len(s) - 1) : s[k] <= s[k + 1]}

FamilyLists == SortedSeqs(BedIDs, MaxBeds)

(* --------------------------- int64 durations --------------------------- *)
\* A time.Duration is an int64 count of nanoseconds.  It is kept as its
\* eight bytes in two's complement, least significant first, and the
\* arithmetic is done on the bytes, so that it wraps as the Go arithmetic does.
Second == 1000000000   \* time.Second

\* the int64 of a number below 2^31
Int64(n) == [k \in 1..8 |-> IF k <= 4 THEN (n \div (256 ^ (k - 1))) % 256 ELSE 0]

RECURSIVE Carry(_, _, _)
Carry(cols, k, c) ==
  IF k > Len(cols) THEN <<>>
  ELSE <<(cols[k] + c) % 256>> \o Carry(cols, k + 1, (cols[k] + c) \div 256)

RECURSIVE ColSum(_, _, _, _)
ColSum(a, b, k, j) ==
  IF j > k THEN 0 ELSE a[j] * b[k - j + 1] + ColSum(a, b, k, j + 1)

\* a * b, a + b and a - b modulo 2^64
Mul64(a, b) == Carry([k \in 1..8 |-> ColSum(a, b, k, 1)], 1, 0)
Add64(a, b) == Carry([k \in 1..8 |-> a[k] + b[k]], 1, 0)
Sub64(a, b) == Carry([k \in 1..8 |-> a[k] + (255 - b[k])], 1, 1)

\* a > 0 as a signed number
IsPositive64(a) == a[8] < 128 /\ \E k \in 1..8 : a[k] # 0

RECURSIVE DivSmall(_, _, _, _)
DivSmall(a, d, k, r) ==
  IF k = 0 THEN <<>>
  ELSE Append(DivSmall(a, d, k - 1, (r * 256 + a[k]) % d), (r * 256 + a[k]) \div d)

\* the whole seconds of a non-negative duration: a divided by 10^9
Seconds64(a) == DivSmall(DivSmall(DivSmall(a, 1000, 8, 0), 1000, 8, 0), 1000, 8, 0)

\* a non-negative int64 as a number, cut off at cap
Capped(a, cap) ==
  IF \E k \in 4..8 : a[k] # 0 THEN cap
  ELSE LET n == a[1] + 256 * a[2] + 65536 * a[3] IN IF n < cap THEN n ELSE cap

\* the int64 hi * 10^9 + lo
Int64Of(hi, lo) == Add64(Mul64(Int64(hi), Int64(Second)), Int64(lo))

\* PollInterval values of a configuration file: a plain number n, read as
\* time.Duration(n), and the duration string "10s", read as 10^10
TenSecondString == Int64Of(10, 0)
PollIntervals == {Int64(n) : n \in 1..MaxPollInterval} \cup {TenSecondString}

(* --------------------------- vendor errors ----------------------------- *)
\* An error message is a sequence of words; strings.Contains is a search
\* for the marker as a contiguous subsequence.
SessionMarker == <<"Session", "is", "invalid">>

ErrMsgs ==
  { <<"Session", "is", "invalid">>,
    <<"401", "Session", "is", "invalid">>,
    <<"Session", "invalid">>,
    <<"timeout">> }

Contains(s, sub) ==
  \E k \in 0..(Len(s) - Len(sub)) :
    \A j \in 1..Len(sub) : s[k + j] = sub[j]

ErrClass(msg) == IF Contains(msg, SessionMarker) THEN "session" ELSE "other"

Queries == {"listDevices", "familyStatus", "foundationStatus", "footWarmerStatus"}
DeviceQueries == {"foundationStatus", "footWarmerStatus"}

(* ------------------------------ state ---------------------------------- *)
VARIABLES
  mainPc,            \* position of the main goroutine
  config,            \* the loaded Configuration (InfluxDB destination, PollInterval)
  sigPending,        \* cancelCh (capacity 1) holds a signal
  sigObserved,       \* main has received from cancelCh
  exited,            \* the process has exited
  exitCode,          \* -1 while running, else the exit status
  exitCause,         \* which exit happened
  pollPc,            \* position of the poll goroutine
  ctx,               \* which loop the pending `continue` belongs to
  beds,              \* beds.Beds of the current cycle
  familyStatusBeds,  \* familyStatusBeds.Beds of the current cycle
  i,                 \* index of the current bed in beds (0 outside the loop)
  elapsed,           \* time.Since(pollStartTime), capped at MaxElapsed
  nowSeq,            \* number of time.Now() samples taken in this cycle
  tsFamilyStatus,    \* the sample taken after the family-status call
  sinkReady,         \* InfluxConnect has returned the client and writeAPI
  flushCount,        \* number of writeAPI.Flush() invocations
  enqSinceFlush,     \* a point was written after the last Flush invocation
  cyclePoints,       \* points written by WritePoint in the current cycle
  errorsCh,          \* writeAPI.Errors(): "none", "pending" (holds an error),
                     \* "logged" (the observer has taken the last error)
  lastOp,            \* last vendor operation issued
  lastRes,           \* its result: "ok", "session", "other", "fail"
  failedOp,          \* query that failed since the last listDevices call
  failedRes,         \* class of that failure
  loggedIn,          \* some login has succeeded
  relogged,          \* some re-login (inside the poll loop) has succeeded
  queryIssued        \* some vendor query has been issued

mainVars == <<mainPc, config, sigPending, sigObserved>>
exitVars == <<exited, exitCode, exitCause>>
pollVars == <<pollPc, ctx, beds, familyStatusBeds, i, elapsed, nowSeq, tsFamilyStatus>>
sinkVars == <<sinkReady, flushCount, enqSinceFlush, cyclePoints, errorsCh>>
histVars == <<lastOp, lastRes, failedOp, failedRes, loggedIn, relogged, queryIssued>>
vars == <<mainVars, exitVars, pollVars, sinkVars, histVars>>

\* The configurations a run is started with: a bucket, or a database and/or
\* a retention policy, or none of them.  The destination is read by
\* InfluxConnect only and the interval by the poll loop only, so every
\* destination is tried with the interval 1 and every interval with the
\* bucket.
Configs ==
  { c \in [ Bucket : {"", "b"}, Database : {"", "db"}, RetentionPolicy : {"", "rp"},
            PollInterval : PollIntervals ] :
      /\ c.Bucket = "" \/ (c.Database = "" /\ c.RetentionPolicy = "")
      /\ c.PollInterval # Int64(1) => c.Bucket # "" }

EmptyConfig ==
  [Bucket |-> "", Database |-> "", RetentionPolicy |-> "", PollInterval |-> Int64(0)]

Init ==
  /\ mainPc = "loadConfig"
  /\ config = EmptyConfig
  /\ sigPending = FALSE
  /\ sigObserved = FALSE
  /\ exited = FALSE
  /\ exitCode = -1
  /\ exitCause = "none"
  /\ pollPc = "idle"
  /\ ctx = "outer"
  /\ beds = <<>>
  /\ familyStatusBeds = <<>>
  /\ i = 0
  /\ elapsed = 0
  /\ nowSeq = 0
  /\ tsFamilyStatus = 0
  /\ sinkReady = FALSE
  /\ flushCount = 0
  /\ enqSinceFlush = FALSE
  /\ cyclePoints = <<>>
  /\ errorsCh = "none"
  /\ lastOp = "none"
  /\ lastRes = "none"
  /\ failedOp = "none"
  /\ failedRes = "none"
  /\ loggedIn = FALSE
  /\ relogged = FALSE
  /\ queryIssued = FALSE

(* ----------------------------- helpers --------------------------------- *)
Min(a, b) == IF a < b THEN a ELSE b

\* log.Fatal: logs and calls os.Exit(1); deferred calls do not run.
Fatal(cause) ==
  /\ exited' = TRUE
  /\ exitCode' = 1
  /\ exitCause' = cause

\* elapsed time of the cycle after a call that took d seconds
After(d) == Min(elapsed + d, MaxElapsed)

\* WriteDest that knows the bucket only
WriteDestBucketOnly(c) == IF c.Bucket # "" THEN c.Bucket ELSE ""

\* WriteDest accepting a database without a retention policy (or the reverse)
WriteDestEither(c) ==
  IF c.Bucket # "" THEN c.Bucket
  ELSE IF c.Database # "" \/ c.RetentionPolicy # ""
       THEN c.Database \o "/" \o c.RetentionPolicy
       ELSE ""

\* the writeDest selection of InfluxConnect (main.go:85-92): "" stands for
\* the error return
WriteDest(c) ==
  IF c.Bucket # "" THEN c.Bucket
  ELSE IF c.Database # "" /\ c.RetentionPolicy # ""
       THEN c.Database \o "/" \o c.RetentionPolicy
       ELSE ""

\* timeRemaining := config.PollInterval*time.Second - time.Since(pollStartTime)
\* for the PollInterval p, e seconds after pollStartTime (main.go:185, 211,
\* 236, 281, 327)
TimeRemaining(p, e) ==
  Sub64(Mul64(p, Int64(Second)), Mul64(Int64(e), Int64(Second)))

\* time.Sleep(timeRemaining), in whole seconds: a non-positive duration
\* returns at once
SleepSeconds(p, e) ==
  LET timeRemaining == TimeRemaining(p, e)
  IN  IF IsPositive64(timeRemaining)
        THEN Capped(Seconds64(timeRemaining), MaxElapsed)
        ELSE 0

\* SleepSeconds, computed once for every interval and elapsed time
SleepTable == [p \in PollIntervals |-> [e \in 0..MaxElapsed |-> SleepSeconds(p, e)]]

\* the sleep of the configuration c, e seconds after pollStartTime
SleepFor(c, e) == SleepTable[c.PollInterval][e]

(* ---------------------------- main goroutine --------------------------- *)
\* main.go:113-121: LoadConfiguration; failure is fatal
MainLoadConfig ==
  /\ ~exited /\ mainPc = "loadConfig"
  /\ \/ /\ \E c \in Configs : config' = c
        /\ mainPc' = "login"
        /\ UNCHANGED exitVars
     \/ /\ Fatal("config")
        /\ UNCHANGED <<config, mainPc>>
  /\ UNCHANGED <<sigPending, sigObserved, pollVars, sinkVars, histVars>>

\* main.go:124-132: the initial siq.Login; failure is fatal
MainLogin ==
  /\ ~exited /\ mainPc = "login"
  /\ lastOp' = "login"
  /\ \/ /\ lastRes' = "ok"
        /\ loggedIn' = TRUE
        /\ mainPc' = "influxConnect"
        /\ UNCHANGED exitVars
     \/ /\ lastRes' = "fail"
        /\ Fatal("login")
        /\ UNCHANGED <<loggedIn, mainPc>>
  /\ UNCHANGED <<config, sigPending, sigObserved, pollVars, sinkVars,
                 failedOp, failedRes, relogged, queryIssued>>

\* main.go:135-161: InfluxConnect; on success the deferred Close and Flush
\* are registered, the error observer and the poll goroutine are started
\* and the signal channel is registered
MainInfluxConnect ==
  /\ ~exited /\ mainPc = "influxConnect"
  /\ IF WriteDest(config) = ""
       THEN /\ Fatal("influx")
            /\ UNCHANGED <<mainPc, sinkReady, pollPc>>
       ELSE /\ sinkReady' = TRUE
            /\ mainPc' = "waitSig"
            /\ pollPc' = "beds"
            /\ UNCHANGED exitVars
  /\ UNCHANGED <<errorsCh, config, sigPending, sigObserved, ctx, beds, familyStatusBeds, i,
                 elapsed, nowSeq, tsFamilyStatus, flushCount, enqSinceFlush, cyclePoints, histVars>>

\* delivery of SIGINT or SIGTERM to cancelCh (main.go:158-159); the channel
\* holds one signal, a further one is dropped.  main reads the channel once
\* (main.go:333): a signal sent after that read is never looked at.
Signal ==
  /\ ~exited /\ mainPc = "waitSig"
  /\ sigPending' = TRUE
  /\ UNCHANGED <<mainPc, config, sigObserved, exitVars, pollVars, sinkVars, histVars>>

\* main.go:333-337: receive the signal and call writeAPI.Flush()
MainRecvSignal ==
  /\ ~exited /\ mainPc = "waitSig" /\ sigPending
  /\ sigPending' = FALSE
  /\ sigObserved' = TRUE
  /\ mainPc' = "inFlush"
  /\ flushCount' = flushCount + 1
  /\ enqSinceFlush' = FALSE
  /\ UNCHANGED <<errorsCh, config, exitVars, pollVars, sinkReady, cyclePoints, histVars>>

\* MainFlushReturn without the deferred writeAPI.Flush()
MainFlushReturnNoDefer ==
  /\ ~exited /\ mainPc = "inFlush"
  /\ mainPc' = "inDeferFlush"
  /\ UNCHANGED <<config, sigPending, sigObserved, exitVars, pollVars, sinkVars, histVars>>

\* main.go:337-338 and 143: Flush returns, main returns, the deferred
\* writeAPI.Flush() is called
MainFlushReturn ==
  /\ ~exited /\ mainPc = "inFlush"
  /\ mainPc' = "inDeferFlush"
  /\ flushCount' = flushCount + 1
  /\ enqSinceFlush' = FALSE
  /\ UNCHANGED <<errorsCh, config, sigPending, sigObserved, exitVars, pollVars, sinkReady,
                 cyclePoints, histVars>>

\* main.go:142-143: the deferred Flush returns, influxClient.Close() runs
\* and the process exits with status 0
MainExit ==
  /\ ~exited /\ mainPc = "inDeferFlush"
  /\ exited' = TRUE
  /\ exitCode' = 0
  /\ exitCause' = "signal"
  /\ UNCHANGED <<mainVars, pollVars, sinkVars, histVars>>

(* ---------------------------- poll goroutine --------------------------- *)
\* influx.NewPoint: measurement, the bed the tags are taken from, and the
\* time.Now() sample used as timestamp
Point(name, bed, ts) == [name |-> name, bed |-> bed, ts |-> ts]

\* SleeperPoints stamped with a time sampled for the bed, not with ts
SleeperPointsOwnStamp(bed, family, ts) ==
  LET matching == SelectSeq(family, LAMBDA id : id = bed)
  IN  [k \in 1..Len(matching) |->
         [name |-> "bed_sleeper_state", bed |-> bed, ts |-> nowSeq + 1]]

\* SleeperPoints without the BedID test: a point for every family-status entry
SleeperPointsCross(bed, family, ts) ==
  [k \in 1..Len(family) |-> [name |-> "bed_sleeper_state", bed |-> bed, ts |-> ts]]

\* SleeperPoints as an outer join: a bed without an entry still gets a point
SleeperPointsOuter(bed, family, ts) ==
  LET matching == SelectSeq(family, LAMBDA id : id = bed)
  IN  IF Len(matching) = 0
        THEN <<[name |-> "bed_sleeper_state", bed |-> bed, ts |-> ts]>>
        ELSE [k \in 1..Len(matching) |-> [name |-> "bed_sleeper_state", bed |-> bed, ts |-> ts]]

\* main.go:302-324: one bed_sleeper_state point for every entry of the
\* family-status list whose BedID equals the bed's
SleeperPoints(bed, family, ts) ==
  LET matching == SelectSeq(family, LAMBDA id : id = bed)
  IN  [k \in 1..Len(matching) |-> Point("bed_sleeper_state", bed, ts)]

\* OnQueryError without the session-invalid test: every error only sleeps
OnQueryErrorNoRelogin(op, msg, c) ==
  /\ lastRes' = ErrClass(msg)
  /\ failedOp' = op
  /\ failedRes' = ErrClass(msg)
  /\ pollPc' = "sleep"
  /\ ctx' = c

\* the error branch shared by the four queries (main.go:168-188, 193-214,
\* 219-239, 264-284): log, re-login when the message carries the marker,
\* then sleep and `continue` the enclosing loop c
OnQueryError(op, msg, c) ==
  /\ lastRes' = ErrClass(msg)
  /\ failedOp' = op
  /\ failedRes' = ErrClass(msg)
  /\ pollPc' = IF Contains(msg, SessionMarker) THEN "login" ELSE "sleep"
  /\ ctx' = c

\* bookkeeping of a vendor query being issued
IssueQuery(op) ==
  /\ lastOp' = op
  /\ queryIssued' = TRUE

\* main.go:164-188: start of a cycle, siq.Beds()
PollBeds ==
  /\ ~exited /\ pollPc = "beds"
  /\ IssueQuery("listDevices")
  /\ \E d \in 0..MaxLatency : elapsed' = Min(d, MaxElapsed)
  /\ nowSeq' = 1
  /\ tsFamilyStatus' = 0
  /\ cyclePoints' = <<>>
  /\ familyStatusBeds' = <<>>
  /\ i' = 0
  /\ \/ /\ \E bl \in BedLists : beds' = bl
        /\ lastRes' = "ok"
        /\ failedOp' = "none"
        /\ failedRes' = "none"
        /\ pollPc' = "family"
        /\ ctx' = "outer"
     \/ /\ \E msg \in ErrMsgs : OnQueryError("listDevices", msg, "outer")
        /\ beds' = <<>>
  /\ UNCHANGED <<errorsCh, mainVars, exitVars, sinkReady, flushCount, enqSinceFlush,
                 loggedIn, relogged>>

\* main.go:191-214: siq.BedFamilyStatus() and its timestamp
PollFamily ==
  /\ ~exited /\ pollPc = "family"
  /\ IssueQuery("familyStatus")
  /\ \E d \in 0..MaxLatency : elapsed' = After(d)
  /\ nowSeq' = nowSeq + 1
  /\ tsFamilyStatus' = nowSeq + 1
  /\ \/ /\ \E fl \in FamilyLists : familyStatusBeds' = fl
        /\ lastRes' = "ok"
        /\ IF Len(beds) = 0
             THEN pollPc' = "sleep" /\ i' = 0
             ELSE pollPc' = "foundation" /\ i' = 1
        /\ UNCHANGED <<ctx, failedOp, failedRes>>
     \/ /\ \E msg \in ErrMsgs : OnQueryError("familyStatus", msg, "outer")
        /\ UNCHANGED <<familyStatusBeds, i>>
  /\ UNCHANGED <<mainVars, exitVars, beds, sinkVars, loggedIn, relogged>>

\* main.go:218-261: siq.BedFoundationStatus(bed.BedID) and its point
PollFoundation ==
  /\ ~exited /\ pollPc = "foundation"
  /\ IssueQuery("foundationStatus")
  /\ \E d \in 0..MaxLatency : elapsed' = After(d)
  /\ \/ /\ lastRes' = "ok"
        /\ nowSeq' = nowSeq + 1
        /\ cyclePoints' =
             Append(cyclePoints, Point("bed_foundation_state", beds[i], nowSeq + 1))
        /\ enqSinceFlush' = TRUE
        /\ pollPc' = "footwarmer"
        /\ UNCHANGED <<ctx, failedOp, failedRes>>
     \/ /\ \E msg \in ErrMsgs : OnQueryError("foundationStatus", msg, "inner")
        /\ UNCHANGED <<nowSeq, cyclePoints, enqSinceFlush>>
  /\ UNCHANGED <<errorsCh, mainVars, exitVars, beds, familyStatusBeds, i, tsFamilyStatus,
                 sinkReady, flushCount, loggedIn, relogged>>

\* where the device loop goes after the bed at index k: the next bed, or
\* past the loop to the end-of-cycle sleep of main.go:327-328
NextBed(k) ==
  IF k < Len(beds)
    THEN pollPc' = "foundation" /\ i' = k + 1 /\ ctx' = ctx
    ELSE pollPc' = "sleep" /\ i' = 0 /\ ctx' = "outer"

\* PollFootWarmer that takes the bed's foundation point back on a failure
PollFootWarmerRollback ==
  /\ ~exited /\ pollPc = "footwarmer"
  /\ IssueQuery("footWarmerStatus")
  /\ \E d \in 0..MaxLatency : elapsed' = After(d)
  /\ \/ /\ lastRes' = "ok"
        /\ nowSeq' = nowSeq + 1
        /\ cyclePoints' =
             Append(cyclePoints, Point("bed_footwarmers_state", beds[i], nowSeq + 1))
               \o SleeperPoints(beds[i], familyStatusBeds, tsFamilyStatus)
        /\ enqSinceFlush' = TRUE
        /\ NextBed(i)
        /\ UNCHANGED <<failedOp, failedRes>>
     \/ /\ \E msg \in ErrMsgs : OnQueryError("footWarmerStatus", msg, "inner")
        /\ cyclePoints' = SubSeq(cyclePoints, 1, Len(cyclePoints) - 1)
        /\ UNCHANGED <<nowSeq, enqSinceFlush, i>>
  /\ UNCHANGED <<errorsCh, mainVars, exitVars, beds, familyStatusBeds, tsFamilyStatus,
                 sinkReady, flushCount, loggedIn, relogged>>

\* main.go:263-325: siq.BedFootWarmerStatus(bed.BedID), its point and the
\* sleeper points of the bed
PollFootWarmer ==
  /\ ~exited /\ pollPc = "footwarmer"
  /\ IssueQuery("footWarmerStatus")
  /\ \E d \in 0..MaxLatency : elapsed' = After(d)
  /\ \/ /\ lastRes' = "ok"
        /\ nowSeq' = nowSeq + 1
        /\ cyclePoints' =
             Append(cyclePoints, Point("bed_footwarmers_state", beds[i], nowSeq + 1))
               \o SleeperPoints(beds[i], familyStatusBeds, tsFamilyStatus)
        /\ enqSinceFlush' = TRUE
        /\ NextBed(i)
        /\ UNCHANGED <<failedOp, failedRes>>
     \/ /\ \E msg \in ErrMsgs : OnQueryError("footWarmerStatus", msg, "inner")
        /\ UNCHANGED <<nowSeq, cyclePoints, enqSinceFlush, i>>
  /\ UNCHANGED <<errorsCh, mainVars, exitVars, beds, familyStatusBeds, tsFamilyStatus,
                 sinkReady, flushCount, loggedIn, relogged>>

\* ReloginFailed that logs the failure and goes on to the sleep
ReloginFailedNotFatal ==
  /\ lastRes' = "fail"
  /\ pollPc' = "sleep"
  /\ UNCHANGED <<loggedIn, relogged, exitVars>>

\* main.go:178-183, 204-209, 229-234, 274-279: a failed re-login is fatal
ReloginFailed ==
  /\ lastRes' = "fail"
  /\ Fatal("relogin")
  /\ UNCHANGED <<loggedIn, relogged, pollPc>>

\* main.go:177-183, 203-209, 228-234, 273-279: the re-login after a
\* session-invalid error
PollLogin ==
  /\ ~exited /\ pollPc = "login"
  /\ lastOp' = "login"
  /\ \E d \in 0..MaxLatency : elapsed' = After(d)
  /\ \/ /\ lastRes' = "ok"
        /\ loggedIn' = TRUE
        /\ relogged' = TRUE
        /\ pollPc' = "sleep"
        /\ UNCHANGED exitVars
     \/ ReloginFailed
  /\ UNCHANGED <<mainVars, ctx, beds, familyStatusBeds, i, nowSeq, tsFamilyStatus,
                 sinkVars, failedOp, failedRes, queryIssued>>

\* main.go:185-187, 211-213, 236-238, 281-283, 327-328: sleep for the rest
\* of the interval, then `continue`: the outer loop starts the next cycle,
\* the device loop goes on with the next bed
PollSleep ==
  /\ ~exited /\ pollPc = "sleep"
  /\ elapsed' = Min(elapsed + SleepFor(config, elapsed), MaxElapsed)
  /\ nowSeq' = nowSeq + 1
  /\ IF ctx = "outer"
       THEN pollPc' = "beds" /\ i' = 0 /\ ctx' = ctx
       ELSE NextBed(i)
  /\ UNCHANGED <<mainVars, exitVars, beds, familyStatusBeds, tsFamilyStatus,
                 sinkVars, histVars>>

Next ==
  \/ MainLoadConfig
  \/ MainLogin
  \/ MainInfluxConnect
  \/ Signal
  \/ MainRecvSignal
  \/ MainFlushReturn
  \/ MainExit
  \/ PollBeds
  \/ PollFamily
  \/ PollFoundation
  \/ PollFootWarmer
  \/ PollLogin
  \/ PollSleep

Spec == Init /\ [][Next]_vars

(* ----------------------- delivery errors of the sink ------------------- *)
\* the sink reports a delivery error on the channel handed out at
\* main.go:145; the channel holds one error, a further one is dropped
DeliveryError ==
  /\ ~exited /\ sinkReady /\ errorsCh # "pending"
  /\ errorsCh' = "pending"
  /\ UNCHANGED <<mainVars, exitVars, pollVars, sinkReady, flushCount, enqSinceFlush,
                 cyclePoints, histVars>>

\* ObserverLog ending the process as log.Fatal does
ObserverLogFatal ==
  /\ ~exited /\ errorsCh = "pending"
  /\ errorsCh' = "logged"
  /\ Fatal("delivery")
  /\ UNCHANGED <<mainVars, pollVars, sinkReady, flushCount, enqSinceFlush,
                 cyclePoints, histVars>>

\* main.go:147-155: the observer goroutine takes an error from the channel
\* and logs it
ObserverLog ==
  /\ ~exited /\ errorsCh = "pending"
  /\ errorsCh' = "logged"
  /\ UNCHANGED <<mainVars, exitVars, pollVars, sinkReady, flushCount, enqSinceFlush,
                 cyclePoints, histVars>>

\* the program together with a sink that reports delivery errors
NextErrors ==
  \/ Next
  \/ DeliveryError
  \/ ObserverLog

SpecErrors == Init /\ [][NextErrors]_vars

TypeOK ==
  /\ mainPc \in {"loadConfig", "login", "influxConnect", "waitSig", "inFlush", "inDeferFlush"}
  /\ pollPc \in {"idle", "beds", "family", "foundation", "footwarmer", "login", "sleep"}
  /\ ctx \in {"outer", "inner"}
  /\ i \in 0..Len(beds)
  /\ elapsed \in 0..MaxElapsed
  /\ flushCount \in 0..2
  /\ exitCode \in {-1, 0, 1}
  /\ errorsCh \in {"none", "pending", "logged"}

(* ------------------------------ properties ----------------------------- *)
QueryStep == PollBeds \/ PollFamily \/ PollFoundation \/ PollFootWarmer
LoginStep == MainLogin \/ PollLogin
PollStep == QueryStep \/ PollLogin \/ PollSleep

\* the session is known to be invalid: the last vendor call was a query that
\* reported it, or the login that followed and failed
SessionInvalid ==
  \/ lastRes = "session"
  \/ lastOp = "login" /\ lastRes = "fail"

\* C1: every vendor query is issued after a successful login, and never
\* while the session is known to be invalid (a query reported it and no
\* login has succeeded since).
C1_QueryOnlyWithValidSession ==
  [][QueryStep => (loggedIn /\ ~SessionInvalid)]_vars

\* C1 witness: a query has been answered after a successful re-login.
C1_Witness == relogged /\ lastOp \in Queries /\ lastRes = "ok"

\* a step that enqueues no point (the start of a cycle clears the record)
NoPointEnqueued == cyclePoints' = cyclePoints \/ Len(cyclePoints') = 0

\* C2 (as claimed): after a foundationStatus or footWarmerStatus failure no
\* point is enqueued in that cycle any more and the next query issued is
\* listDevices.
C2_DeviceFailureAbortsCycle ==
  [][(failedOp \in DeviceQueries) =>
       ((QueryStep => PollBeds) /\ NoPointEnqueued)]_vars

\* C3 (as claimed): after a session-invalid error and its re-login the next
\* query issued is listDevices of a fresh cycle.
C3_ReloginRestartsCycle ==
  [][(failedRes = "session" /\ QueryStep) => PollBeds]_vars

\* C4: after a session-invalid error the poll task's next step is a login
\* attempt; a login is attempted in the loop only then (so once per error);
\* a failed attempt exits the process with status 1, after which no query
\* or login is issued.
C4_OneReloginPerSessionError ==
  [][((lastRes = "session" /\ PollStep) => (PollLogin /\ lastOp' = "login")) /\
     (PollLogin => lastRes = "session") /\
     ((PollLogin /\ lastRes' = "fail") => (exited' /\ exitCode' = 1)) /\
     ((lastOp = "login" /\ lastRes = "fail") => ~(QueryStep \/ LoginStep))]_vars

\* C4 witness: a re-login that followed a session-invalid error has failed.
C4_Witness ==
  exited /\ exitCause = "relogin" /\ failedRes = "session" /\ lastRes = "fail"

\* C5 (as claimed): once main has received the signal, the poll task starts
\* no new cycle.
C5_NoCycleAfterSignal ==
  [][sigObserved => ~PollBeds]_vars

AtCycleBoundary == pollPc = "beds" \/ (pollPc = "sleep" /\ ctx = "outer")

\* C7 (as claimed): from the receipt of the signal on (shutdown flush and
\* exit), the poll task is at a cycle boundary and has enqueued no point
\* since the flush began.
C7_ShutdownAtCycleBoundary ==
  sigObserved => (AtCycleBoundary /\ ~enqSinceFlush)

\* C8 (as claimed): when the process has exited after the sink was
\* constructed, Flush has been invoked, and no point was enqueued after its
\* last invocation.
C8_FlushBeforeEveryExit ==
  (exited /\ sinkReady) => (flushCount >= 1 /\ ~enqSinceFlush)

\* C9 (as claimed): after a query error without the session-invalid marker
\* no login is attempted, the process is not ended by the poll task, and the
\* next query issued is listDevices.
C9_NonSessionErrorAbortsCycle ==
  [][failedRes = "other" =>
       (~PollLogin /\ (QueryStep => PollBeds) /\
        (exited' => exitCause' = "signal"))]_vars

\* the sink destination is missing from the loaded configuration
DestMissing ==
  config.Bucket = "" /\ (config.Database = "" \/ config.RetentionPolicy = "")

\* C10 (as claimed): when the process has aborted on a configuration error,
\* no vendor login or query has been issued.
C10_ConfigErrorBeforeNetwork ==
  (exited /\ exitCause \in {"config", "influx"}) => (lastOp = "none" /\ ~queryIssued)

\* C10 (amended): with the sink destination missing the poll loop never
\* starts: no query is issued, no point enqueued, and the process can only
\* exit with status 1; the abort by InfluxConnect comes after the initial
\* login, which has succeeded.  A configuration that cannot be loaded
\* aborts before any vendor call.
C10_ConfigErrorBeforePolling ==
  /\ (mainPc # "loadConfig" /\ DestMissing) =>
       /\ ~queryIssued /\ pollPc = "idle" /\ ~sinkReady /\ cyclePoints = <<>>
       /\ mainPc \in {"login", "influxConnect"}
       /\ exited => (exitCode = 1 /\ exitCause \in {"login", "influx"})
  /\ exitCause = "influx" =>
       (DestMissing /\ lastOp = "login" /\ lastRes = "ok" /\ loggedIn)
  /\ exitCause = "config" => (lastOp = "none" /\ ~queryIssued)

\* C10 witness: InfluxConnect has aborted the process for a configuration
\* with a database but no retention policy.
C10_Witness ==
  exited /\ exitCause = "influx" /\ config.Database = "db" /\ config.RetentionPolicy = ""

\* the cycle has run to its end-of-cycle sleep with every query answered
CycleCompleted ==
  /\ pollPc = "sleep" /\ ctx = "outer"
  /\ failedOp = "none" /\ lastRes = "ok"
  /\ lastOp \in {"familyStatus", "footWarmerStatus"}

\* number of points of the cycle with this measurement, for this bed
CountFor(name, bed) ==
  Len(SelectSeq(cyclePoints, LAMBDA p : p.name = name /\ p.bed = bed))

\* number of points of the cycle with this measurement
CountOf(name) == Len(SelectSeq(cyclePoints, LAMBDA p : p.name = name))

\* number of family-status entries with this identifier
Entries(bed) == Len(SelectSeq(familyStatusBeds, LAMBDA id : id = bed))

\* the identifiers listed by beds
Listed == {beds[k] : k \in 1..Len(beds)}

\* no identifier occurs twice in the family-status list
FamilyDistinct == \A b \in BedIDs : Entries(b) <= 1

\* one foundation and one foot-warmer point for every listed bed, 2N in all
TwoPointsPerBed ==
  /\ \A b \in Listed :
       CountFor("bed_foundation_state", b) = 1 /\ CountFor("bed_footwarmers_state", b) = 1
  /\ CountOf("bed_foundation_state") + CountOf("bed_footwarmers_state") = 2 * Len(beds)

IntervalSeconds == [p \in PollIntervals |-> Capped(p, MaxElapsed)]

\* the int64 product PollInterval * time.Second is the configured interval:
\* it is positive and dividing it by time.Second gives PollInterval back
ProductExact ==
  [p \in PollIntervals |->
     LET product == Mul64(p, Int64(Second))
     IN  IsPositive64(product) /\ Seconds64(product) = p]

Max(a, b) == IF a > b THEN a ELSE b

\* the sleep that ends a cycle (main.go:327-328, or the error branch of a
\* cycle-level query), as opposed to one inside the device loop
CycleEndSleep == PollSleep /\ ctx = "outer"

\* C13 (as claimed): the wait that ends a cycle is max(0, configured
\* interval - elapsed): it brings the time since the cycle's start up to the
\* configured interval, and is zero when that time has already passed.
C13_WaitIsRemainder ==
  [][CycleEndSleep => (elapsed' = Max(elapsed, IntervalSeconds[config.PollInterval]))]_vars

\* C16 (as claimed): a listDevices call that is not the first one is issued
\* at least the configured interval after the previous one; a query that
\* failed without the session marker leads to the sleep, not to a login or
\* an exit, and the sleep leads on to the next query or the cycle's end.
C16_GatedByInterval ==
  [][((PollBeds /\ queryIssued) => (elapsed >= IntervalSeconds[config.PollInterval])) /\
     ((QueryStep /\ lastRes' = "other") =>
        (pollPc' = "sleep" /\ exited' = exited /\ loggedIn' = loggedIn)) /\
     ((PollSleep /\ failedRes = "other") =>
        (pollPc' \in {"beds", "foundation", "sleep"} /\ exited' = exited /\
         loggedIn' = loggedIn)) /\
     ((PollStep /\ failedRes = "other") => ~PollLogin)]_vars

\* C20 (as claimed): for every positive PollInterval a configuration can
\* hold, the int64 product PollInterval * time.Second is the configured
\* interval (it does not wrap), and a sleep entered before the configured
\* interval has passed is not of zero length.
C20_ProductDoesNotWrap ==
  [][((config' \in Configs /\ IsPositive64(config'.PollInterval)) =>
        ProductExact[config'.PollInterval]) /\
     ((PollSleep /\ elapsed < IntervalSeconds[config.PollInterval]) =>
        (elapsed' > elapsed))]_vars

\* the two sink destinations of a configuration
BucketSet == config.Bucket # ""
PairSet == config.Database # "" /\ config.RetentionPolicy # ""

\* C14: InfluxConnect fails, and the process exits with status 1, whenever
\* neither the bucket nor the database/retention-policy pair is set, and
\* succeeds, handing out the sink and starting the poll loop, whenever
\* exactly one of them is set, whatever the rest of the configuration.
C14_ConnectOutcome ==
  [][MainInfluxConnect =>
       (((~BucketSet /\ ~PairSet) =>
           (exited' /\ exitCode' = 1 /\ exitCause' = "influx" /\ ~sinkReady')) /\
        ((BucketSet # PairSet) =>
           (sinkReady' /\ ~exited' /\ mainPc' = "waitSig" /\ pollPc' = "beds")))]_vars

\* C14 witness: InfluxConnect has succeeded for a configuration with a
\* database and a retention policy and no bucket.
C14_Witness ==
  /\ sinkReady /\ ~exited /\ ~queryIssued /\ pollPc = "beds"
  /\ ~BucketSet /\ PairSet

\* the poll goroutine leaves the position pc: the step of the action of that
\* position (PollBeds for "beds", PollFamily for "family", PollFoundation
\* for "foundation", PollFootWarmer for "footwarmer"), which is the only
\* one to change pollPc there and always changes it
StepAt(pc) == pollPc = pc /\ pollPc' # pc

\* every sleeper point of the cycle carries the cycle's family-status time
SleeperStamps ==
  \A k \in 1..Len(cyclePoints) :
    cyclePoints[k].name = "bed_sleeper_state" =>
      (cyclePoints[k].ts = tsFamilyStatus /\ tsFamilyStatus > 0)

\* the foundation and foot-warmer points of the cycle carry times of their
\* own: each later than the family-status time and than the time of every
\* such point before it
OwnStamps ==
  \A k \in 1..Len(cyclePoints) :
    cyclePoints[k].name # "bed_sleeper_state" =>
      /\ cyclePoints[k].ts > tsFamilyStatus
      /\ \A j \in 1..(k - 1) :
           cyclePoints[j].name # "bed_sleeper_state" => cyclePoints[j].ts < cyclePoints[k].ts

\* C17: familyStatus is called once in a cycle, right after listDevices, and
\* its time is sampled then and at no other step of the cycle; every
\* sleeper point of the cycle carries that time, and every foundation and
\* foot-warmer point a time sampled after its own query, later than all
\* times sampled before in the cycle.
C17_Timestamps ==
  [][(StepAt("family") =>
        (lastOp = "listDevices" /\ tsFamilyStatus' = nowSeq' /\ nowSeq' > nowSeq)) /\
     ((tsFamilyStatus' # tsFamilyStatus) => (StepAt("family") \/ StepAt("beds"))) /\
     (StepAt("beds") => (tsFamilyStatus' = 0 /\ Len(cyclePoints') = 0)) /\
     (((StepAt("foundation") \/ StepAt("footwarmer")) /\ lastRes' = "ok") =>
        (nowSeq' > nowSeq /\ Len(cyclePoints') > Len(cyclePoints) /\
         cyclePoints'[Len(cyclePoints) + 1].ts = nowSeq')) /\
     ((cyclePoints' # cyclePoints \/ tsFamilyStatus' # tsFamilyStatus) =>
        (SleeperStamps' /\ OwnStamps'))]_vars

\* C17 witness: a completed cycle over two beds with a sleeper point for
\* each of them.
C17_Witness ==
  /\ CycleCompleted /\ Len(beds) = 2
  /\ CountFor("bed_sleeper_state", 1) > 0 /\ CountFor("bed_sleeper_state", 2) > 0

\* s is an initial part of t
IsPrefix(s, t) == Len(s) <= Len(t) /\ SubSeq(t, 1, Len(s)) = s

\* the points the step has enqueued are all of the bed the loop is at
NewPointsOfBed ==
  \A k \in (Len(cyclePoints) + 1)..Len(cyclePoints') : cyclePoints'[k].bed = beds[i]

\* a bed has at most one foundation point, a foot-warmer point only with
\* it, and sleeper points only with a foot-warmer point
PointsInOrder ==
  \A b \in BedIDs :
    /\ CountFor("bed_foundation_state", b) <= 1
    /\ CountFor("bed_footwarmers_state", b) <= CountFor("bed_foundation_state", b)
    /\ CountFor("bed_footwarmers_state", b) = 0 => CountFor("bed_sleeper_state", b) = 0

\* C19: within a cycle a point once enqueued stays enqueued, the device loop
\* never returns to a bed, and a step enqueues points of the bed it is at
\* only; so when footWarmerStatus fails for a bed, the bed's foundation
\* point, enqueued last, and all points of the beds before it stay, and the
\* bed gets no foot-warmer and no sleeper point in that cycle.
C19_AbortedCycleKeepsPoints ==
  [][((cyclePoints' # cyclePoints \/ i' # i) =>
        (StepAt("beds") \/ (IsPrefix(cyclePoints, cyclePoints') /\ NewPointsOfBed /\
                            (i' = i \/ i' = i + 1 \/ i' = 0)))) /\
     ((StepAt("footwarmer") /\ lastRes' # "ok") =>
        (cyclePoints' = cyclePoints /\ Len(cyclePoints) > 0 /\
         cyclePoints[Len(cyclePoints)].name = "bed_foundation_state" /\
         cyclePoints[Len(cyclePoints)].bed = beds[i] /\
         CountFor("bed_footwarmers_state", beds[i]) = 0 /\
         CountFor("bed_sleeper_state", beds[i]) = 0)) /\
     ((cyclePoints' # cyclePoints) => PointsInOrder')]_vars

\* C19 witness: footWarmerStatus has failed for the second bed after the
\* first bed's points and the second bed's foundation point were enqueued.
C19_Witness ==
  /\ lastOp = "footWarmerStatus" /\ lastRes = "other" /\ pollPc = "sleep"
  /\ i = 2 /\ Len(cyclePoints) >= 3
  /\ cyclePoints[Len(cyclePoints)].name = "bed_foundation_state"
  /\ cyclePoints[Len(cyclePoints)].bed = beds[2]
  /\ CountFor("bed_footwarmers_state", beds[1]) = 1

\* the poll goroutine has been started and the process is running
PollStarted == ~exited /\ pollPc # "idle"

\* C18: a delivery error arriving on the error channel, and the observer
\* logging it, change nothing but the channel: not the position or data of
\* the poll task, not the login state, not the exit state; and whatever the
\* channel holds, the poll task, once started, can take its next step until
\* the process exits.
C18_DeliveryErrorsOnlyLogged ==
  [][((errorsCh' # errorsCh) =>
        ((DeliveryError \/ ObserverLog) /\
         UNCHANGED <<mainVars, exitVars, pollVars, histVars>> /\
         UNCHANGED <<sinkReady, flushCount, enqSinceFlush, cyclePoints>>)) /\
     (PollStarted => ENABLED PollStep)]_vars

\* C18 witness: the observer has logged a delivery error that arrived in
\* the middle of a cycle, and the poll task is going on with the cycle.
C18_Witness ==
  /\ errorsCh = "logged" /\ PollStarted
  /\ pollPc = "footwarmer" /\ i = 2 /\ Len(cyclePoints) >= 3

\* C15 (as claimed): once main has received the signal the process exits
\* with status 0 only, and after the signal-triggered flush has returned;
\* status 1 comes from a fatal startup or authentication error only.
C15_SignalExitsZero ==
  /\ (sigObserved /\ exited) =>
       (exitCode = 0 /\ exitCause = "signal" /\ mainPc = "inDeferFlush" /\ flushCount >= 1)
  /\ (exited /\ exitCode = 1) => exitCause \in {"config", "login", "influx", "relogin"}

====
